---- MODULE Spec2Model ----
(***************************************************************************)
(* Model of the multi-tab live preview session of antigravity_live_preview *)
(* (src/src/multiTabPreviewPanel.ts, class MultiTabPreviewPanel): the tab  *)
(* store (_tabs, _activeTabId, _tabCounter), the synchronization from the  *)
(* focused editor, the 300 ms debounce timer of the constructor, disposal  *)
(* and the payload written to the webview.                                 *)
(*                                                                         *)
(* Strings of the program are strings here.  Template strings built from   *)
(* the counter (`tab-${n}`, `Tab ${n}`) are read from tables indexed by n. *)
(* Time is counted in units of TimeUnit milliseconds.                      *)
(***************************************************************************)
EXTENDS Integers, Sequences, FiniteSets, TLC

VARIABLES
    tabs,        \* _tabs: sequence of PreviewTab records
    activeId,    \* _activeTabId
    tabCounter,  \* _tabCounter
    focus,       \* vscode.window.activeTextEditor?.document (NoEditor when undefined)
    text,        \* current text of every HTML document (document.getText())
    timeout,     \* the constructor's `timeout` handle has been assigned
    pending,     \* timers set and neither fired nor cleared: remaining time, oldest first
    disposed,    \* dispose() has run
    html,        \* _panel.webview.html, the payload last written
    issued,      \* history: every id handed out by _addNewTab, in order
    last,        \* history: the operation that produced this state
    armedActive, \* history: _activeTabId when the pending timer was set
    sinceChange, \* history: time since the last change event that set a timer
    burstLen,    \* history: change events of the current burst (counted up to 3)
    currentPanel,\* the static MultiTabPreviewPanel.currentPanel: the number of the session it
                 \* refers to, NoPanel when undefined
    session,     \* the number of the session the variables above describe
    retired,     \* what is left of the sessions before it: those that can still act
    selecting,   \* calls of _selectFile in flight: how many await the dialog (dialog) and
                 \* how many await showTextDocument's result (shown); active is history:
                 \* the tab that was active when the call in flight was made
    source,      \* the resolver: the document text handed to _convertResourcePaths
    disk,        \* the resolver: the files next to the document
    pass,        \* the resolver: the last pass that has run
    out          \* the resolver: the text after that pass

vars == <<tabs, activeId, tabCounter, focus, text, timeout, pending, disposed,
          html, issued, last, armedActive, sinceChange, burstLen, selecting,
          currentPanel, session, retired, source, disk, pass, out>>

storeVars == <<tabs, activeId, tabCounter, issued>>
timerVars == <<timeout, pending>>
burstVars == <<armedActive, sinceChange, burstLen>>
resolverVars == <<source, disk, pass, out>>
lifeVars == <<currentPanel, session, retired>>

-----------------------------------------------------------------------------
(* Bounds of the model *)

MaxCounter == 4     \* largest value of _tabCounter explored by SpecStore and SpecCreateClose
LiveCounter == 2    \* largest value of _tabCounter explored by Spec
MaxPending == 2     \* most timers pending at once that arming may reach
MaxSelects == 1     \* most calls of _selectFile in flight at once
MaxSessions == 2    \* most sessions constructed one after the other
FrameCounter == 3   \* largest value of _tabCounter explored by SpecFrame
MaxParts == 2       \* most parts a document handed to the resolver is made of
MaxTokens == 3      \* most pieces a text handed to _escapeHtml is made of
TimeUnit == 100     \* milliseconds per unit of model time

(* Program constants *)

QuietMs == 300
QuietPeriod == QuietMs \div TimeUnit

-----------------------------------------------------------------------------
(* The editor side: documents, their language and file name *)

NoEditor == "undefined"
NoUri == "undefined"

HtmlDocs == {"/w/a.html", "/w/b.html"}
OtherDocs == {"/w/notes.txt"}
Docs == HtmlDocs \cup OtherDocs

languageId(d) == IF d \in HtmlDocs THEN "html" ELSE "plaintext"

basename(d) ==
    CASE d = "/w/a.html" -> "a.html"
      [] d = "/w/b.html" -> "b.html"
      [] OTHER -> "notes.txt"

\* the texts each HTML document takes in the model; the empty text is one of them
TextsOf(d) == IF d = "/w/a.html" THEN {"", "<h1>one</h1>"} ELSE {"<p>b</p>"}

-----------------------------------------------------------------------------
(* Tab ids and placeholder titles: `tab-${n}` and `Tab ${n}` *)

TabIdTable == <<"tab-1", "tab-2", "tab-3", "tab-4", "tab-5", "tab-6", "tab-7", "tab-8">>
TabTitleTable == <<"Tab 1", "Tab 2", "Tab 3", "Tab 4", "Tab 5", "Tab 6", "Tab 7", "Tab 8">>

TabId(n) == TabIdTable[n]
TabTitle(n) == TabTitleTable[n]

\* ids a message of the webview may carry: every id the session can issue, whether its
\* tab is open, closed or not created yet
MsgIds(maxCounter) == {TabId(n) : n \in 1..maxCounter}

\* the same, and an id that is never issued
StoreIds == MsgIds(MaxCounter) \cup {"nonexistent"}

Max(a, b) == IF a >= b THEN a ELSE b
Min(a, b) == IF a <= b THEN a ELSE b

\* Array.prototype.findIndex, 1-based; 0 when no tab has the id
findIndex(ts, id) ==
    IF \E i \in 1..Len(ts) : ts[i].id = id
    THEN CHOOSE i \in 1..Len(ts) :
            /\ ts[i].id = id
            /\ \A j \in 1..(i - 1) : ts[j].id # id
    ELSE 0

\* Array.prototype.splice(index, 1), 1-based
splice(ts, i) == SubSeq(ts, 1, i - 1) \o SubSeq(ts, i + 1, Len(ts))

HasTab(ts, id) == findIndex(ts, id) # 0
TabIds(ts) == {ts[i].id : i \in 1..Len(ts)}

-----------------------------------------------------------------------------
(* Text: the characters of a string, and the character classes of the patterns *)

Char(s, i) == SubSeq(s, i, i)

UpperCase == "ABCDEFGHIJKLMNOPQRSTUVWXYZ"
LowerCase == "abcdefghijklmnopqrstuvwxyz"

UpperChars == {Char(UpperCase, k) : k \in 1..Len(UpperCase)}

LowerOf ==
    [c \in UpperChars |->
        Char(LowerCase, CHOOSE k \in 1..Len(UpperCase) : Char(UpperCase, k) = c)]

\* the lower-case form of a character (the patterns carry the flag i)
Lower(c) == IF c \in UpperChars THEN LowerOf[c] ELSE c

\* the non-empty literal lit (written in lower case) matches s at position i, case
\* ignored: its first character does, and the others do
MatchesAt(s, i, lit) ==
    /\ i >= 1
    /\ i + Len(lit) - 1 <= Len(s)
    /\ Lower(Char(s, i)) = Char(lit, 1)
    /\ \A k \in 2..Len(lit) : Lower(Char(s, i + k - 1)) = Char(lit, k)

\* ["']
IsQuote(c) == c \in {"\"", "'"}

\* \s
IsSpace(c) == c \in {" ", "\t", "\n", "\r", "\f"}

\* . matches any character but a line terminator
IsDot(c) == c \notin {"\n", "\r"}

\* String.prototype.includes
Includes(s, sub) == \E i \in 1..(Len(s) - Len(sub) + 1) : SubSeq(s, i, i + Len(sub) - 1) = sub

\* the least element of a non-empty set of positions
Least(S) == CHOOSE x \in S : \A y \in S : x <= y

-----------------------------------------------------------------------------
(* The resource resolver: _convertResourcePaths and what it calls *)

\* path.dirname of an absolute path
dirname(p) ==
    LET slashes == {i \in 1..Len(p) : Char(p, i) = "/"}
        lastSlash == CHOOSE i \in slashes : \A j \in slashes : j <= i
    IN IF lastSlash = 1 THEN "/" ELSE SubSeq(p, 1, lastSlash - 1)

\* the segments of a path, split at "/"
RECURSIVE Segments(_)
Segments(p) ==
    LET slashes == {i \in 1..Len(p) : Char(p, i) = "/"} IN
    IF slashes = {}
    THEN <<p>>
    ELSE <<SubSeq(p, 1, Least(slashes) - 1)>> \o Segments(SubSeq(p, Least(slashes) + 1, Len(p)))

\* path.normalize on the segments: "" and "." are dropped, ".." drops the segment before
RECURSIVE NormalSegments(_, _)
NormalSegments(segs, done) ==
    IF segs = <<>>
    THEN done
    ELSE LET h == Head(segs) IN
         NormalSegments(Tail(segs),
                        IF h = "" \/ h = "." THEN done
                        ELSE IF h = ".."
                             THEN (IF done = <<>> THEN done ELSE SubSeq(done, 1, Len(done) - 1))
                             ELSE Append(done, h))

RECURSIVE JoinSegments(_)
JoinSegments(segs) ==
    IF segs = <<>> THEN "" ELSE "/" \o Head(segs) \o JoinSegments(Tail(segs))

\* path.join(documentDir, p) for an absolute documentDir: the two joined by "/", normalized
join(dir, p) ==
    LET r == JoinSegments(NormalSegments(Segments(dir \o "/" \o p), <<>>)) IN
    IF r = "" THEN "/"
    ELSE IF p # "" /\ Char(p, Len(p)) = "/" THEN r \o "/" ELSE r

\* webview.asWebviewUri(vscode.Uri.file(path)), as the host forms it for a path that needs
\* no percent-encoding
WebviewUriRoot == "https://file+.vscode-resource.vscode-cdn.net"
asWebviewUri(path) == WebviewUriRoot \o path

\* fs.existsSync and fs.readFileSync on the files of the model: d maps a path to a record
\* with kind "file" (text is its content), "unreadable" (reading throws) or "missing"
existsSync(d, path) == path \in DOMAIN d /\ d[path].kind # "missing"
readThrows(d, path) == d[path].kind = "unreadable"
readFileSync(d, path) == d[path].text

\* the lookahead without its alternative data:
LookaheadAbsolute_NoData(s, v) ==
    \/ MatchesAt(s, v, "http")
    \/ MatchesAt(s, v, "https://")
    \/ MatchesAt(s, v, "//")

\* the negative lookahead (?!http|https:\/\/|\/\/|data:) fails at position v
LookaheadAbsolute(s, v) ==
    \/ MatchesAt(s, v, "http")
    \/ MatchesAt(s, v, "https://")
    \/ MatchesAt(s, v, "//")
    \/ MatchesAt(s, v, "data:")

\* (.*?)["'] from position v: the positions of a quote that only characters matched by .
\* separate from v
QuoteEnds(s, v) ==
    {e \in v..Len(s) : IsQuote(Char(s, e)) /\ \A k \in v..(e - 1) : IsDot(Char(s, k))}

\* the positions after e where a > stands
ClosersAfter(s, e) == {g \in (e + 1)..Len(s) : Char(s, g) = ">"}

\* the ends (position of the closing quote) the value of an attribute starting at v can
\* have in a match of an element pattern: (.*?\.css)["']([^>]*?)> when css, else
\* (.*?)["']([^>]*?)>
ValueEnds(s, v, css) ==
    {e \in QuoteEnds(s, v) :
        /\ ClosersAfter(s, e) # {}
        /\ css => (e - 4 >= v /\ MatchesAt(s, e - 4, ".css"))}

\* the positions h where attr can start in a match at p of
\* <tag\s+([^>]*?)attr=["'](?!...)(value)["']([^>]*?)>
AttrStarts(s, p, tag, attr, css) ==
    {h \in (p + Len(tag) + 1)..Len(s) :
        /\ MatchesAt(s, h, attr)
        /\ \A k \in (p + Len(tag) + 1)..(h - 1) : Char(s, k) # ">"
        /\ IsQuote(Char(s, h + Len(attr)))
        /\ ~LookaheadAbsolute(s, h + Len(attr) + 1)
        /\ ValueEnds(s, h + Len(attr) + 1, css) # {}}

\* the element pattern matches at p
ElementMatches(s, p, tag, attr, css) ==
    /\ MatchesAt(s, p, tag)
    /\ p + Len(tag) <= Len(s) /\ IsSpace(Char(s, p + Len(tag)))
    /\ AttrStarts(s, p, tag, attr, css) # {}

\* the match at p: where the first group starts (b), the attribute (h), its value (v..e-1)
\* and the closing > (g); the quantifiers are lazy, so each takes the least it can
ElementMatch(s, p, tag, attr, css) ==
    LET h == Least(AttrStarts(s, p, tag, attr, css))
        v == h + Len(attr) + 1
        e == Least(ValueEnds(s, v, css))
        spaces == {b \in (p + Len(tag) + 1)..h : \A k \in (p + Len(tag))..(b - 1) : IsSpace(Char(s, k))}
    IN [before |-> CHOOSE b \in spaces : \A c \in spaces : c <= b,
        attr |-> h, from |-> v, quote |-> e, close |-> Least(ClosersAfter(s, e))]

\* pass 1 from position p on: html.replace(/<link\s+([^>]*?)href=...(.*?\.css)...>/gi, ...)
\* copies the text up to the next match, replaces the match and goes on behind it
RECURSIVE inlineCssFrom(_, _, _, _)
inlineCssFrom(s, p, dir, d) ==
    LET matches == {q \in p..Len(s) : ElementMatches(s, q, "<link", "href=", TRUE)} IN
    IF matches = {}
    THEN SubSeq(s, p, Len(s))
    ELSE LET q == Least(matches)
             m == ElementMatch(s, q, "<link", "href=", TRUE)
             cssPath == SubSeq(s, m.from, m.quote - 1)
             resourcePath == join(dir, cssPath)
         IN SubSeq(s, p, q - 1)
            \o (IF existsSync(d, resourcePath) /\ ~readThrows(d, resourcePath)
                THEN "<style>" \o readFileSync(d, resourcePath) \o "</style>"
                ELSE SubSeq(s, q, m.close))
            \o inlineCssFrom(s, m.close + 1, dir, d)

inlineCss(s, dir, d) == inlineCssFrom(s, 1, dir, d)

\* /src=["'](?!...)(.*?)["']/gi matches at p
SrcMatches(s, p) ==
    /\ MatchesAt(s, p, "src=")
    /\ IsQuote(Char(s, p + 4))
    /\ ~LookaheadAbsolute(s, p + 5)
    /\ QuoteEnds(s, p + 5) # {}

\* the src pass put off: nothing is rewritten before the script pass
rewriteSrc_NotYet(s, dir) == s

\* pass 2 from position p on: html.replace(/src=["'](?!...)(.*?)["']/gi, ...)
RECURSIVE rewriteSrcFrom(_, _, _)
rewriteSrcFrom(s, p, dir) ==
    LET matches == {q \in p..Len(s) : SrcMatches(s, q)} IN
    IF matches = {}
    THEN SubSeq(s, p, Len(s))
    ELSE LET q == Least(matches)
             e == Least(QuoteEnds(s, q + 5))
             p1 == SubSeq(s, q + 5, e - 1)
         IN SubSeq(s, p, q - 1)
            \o "src=\"" \o asWebviewUri(join(dir, p1)) \o "\""
            \o rewriteSrcFrom(s, e + 1, dir)

rewriteSrc(s, dir) == rewriteSrcFrom(s, 1, dir)

\* pass 3 from position p on: html.replace(/<script\s+([^>]*?)src=...(.*?)...>/gi, ...)
RECURSIVE inlineScriptsFrom(_, _, _, _)
inlineScriptsFrom(s, p, dir, d) ==
    LET matches == {q \in p..Len(s) : ElementMatches(s, q, "<script", "src=", FALSE)} IN
    IF matches = {}
    THEN SubSeq(s, p, Len(s))
    ELSE LET q == Least(matches)
             m == ElementMatch(s, q, "<script", "src=", FALSE)
             scriptPath == SubSeq(s, m.from, m.quote - 1)
             resourcePath == join(dir, scriptPath)
             before == SubSeq(s, m.before, m.attr - 1)
             after == SubSeq(s, m.quote + 1, m.close - 1)
         IN SubSeq(s, p, q - 1)
            \o (IF existsSync(d, resourcePath) /\ ~readThrows(d, resourcePath)
                THEN "<script " \o before \o after \o ">" \o readFileSync(d, resourcePath)
                     \o "</script>"
                ELSE SubSeq(s, q, m.close))
            \o inlineScriptsFrom(s, m.close + 1, dir, d)

inlineScripts(s, dir, d) == inlineScriptsFrom(s, 1, dir, d)

\* _convertResourcePaths(html, documentUri)
convertResourcePaths(s, uri, d) ==
    LET documentDir == dirname(uri) IN
    inlineScripts(rewriteSrc(inlineCss(s, documentDir, d), documentDir), documentDir, d)

-----------------------------------------------------------------------------
(* The sandbox renderer: _getPreviewContent after the resolver, and _escapeHtml *)

\* the template literal navigationScript
NavigationScript ==
    "\n"
    \o "            <script>\n"
    \o "                (function() {\n"
    \o "                    // Prevent navigation by intercepting link clicks\n"
    \o "                    document.addEventListener('click', function(e) {\n"
    \o "                        const target = e.target.closest('a');\n"
    \o "                        if (target && target.href) {\n"
    \o "                            const href = target.getAttribute('href');\n"
    \o "                            // Allow hash links for anchor navigation\n"
    \o "                            if (href && href.startsWith('#')) {\n"
    \o "                                return; // Allow default behavior for hash links\n"
    \o "                            }\n"
    \o "                            // Prevent navigation for all other links\n"
    \o "                            e.preventDefault();\n"
    \o "                            // Optionally open external links in browser\n"
    \o "                            if (href && (href.startsWith('http://') || href.startsWith('https://'))) {\n"
    \o "                                // External links - could be opened in external browser\n"
    \o "                                console.log('External link clicked:', href);\n"
    \o "                            }\n"
    \o "                        }\n"
    \o "                    }, true);\n"
    \o "                })();\n"
    \o "            </script>\n"
    \o "        "

\* the positions of s where the non-empty text sub stands
Occurrences(s, sub) ==
    {i \in 1..(Len(s) - Len(sub) + 1) :
        Char(s, i) = Char(sub, 1) /\ SubSeq(s, i, i + Len(sub) - 1) = sub}

\* the script appended whatever the text holds
injectNavigationScript_Append(s) == s \o NavigationScript

\* htmlContent.replace('</body>', navigationScript + '</body>'): a string pattern replaces
\* its first occurrence only; else htmlContent + navigationScript
injectNavigationScript(s) ==
    IF Includes(s, "</body>")
    THEN LET q == Least(Occurrences(s, "</body>")) IN
         SubSeq(s, 1, q - 1) \o NavigationScript \o "</body>" \o SubSeq(s, q + 7, Len(s))
    ELSE s \o NavigationScript

\* s from position p on, with r in the place of the character at each position of at
RECURSIVE ReplaceAt(_, _, _, _)
ReplaceAt(s, p, at, r) ==
    IF at = {}
    THEN SubSeq(s, p, Len(s))
    ELSE LET q == Least(at) IN
         SubSeq(s, p, q - 1) \o r \o ReplaceAt(s, q + 1, at \ {q}, r)

\* s.replace(/c/g, r) for a pattern of one character
replaceAll(s, c, r) == ReplaceAt(s, 1, {i \in 1..Len(s) : Char(s, i) = c}, r)

\* _escapeHtml with the ampersands last
escapeHtml_AmpersandLast(s) ==
    replaceAll(replaceAll(replaceAll(s, "\"", "&quot;"), "'", "&#39;"), "&", "&amp;")

\* _escapeHtml
escapeHtml(s) ==
    replaceAll(replaceAll(replaceAll(s, "&", "&amp;"), "\"", "&quot;"), "'", "&#39;")

\* the template literal _getPreviewContent returns around the escaped text
frame(escaped) ==
    "\n"
    \o "            <iframe srcdoc=\"" \o escaped \o "\" \n"
    \o "                    sandbox=\"allow-scripts allow-same-origin\" \n"
    \o "                    style=\"width:100%; height:100%; border:none;\">\n"
    \o "            </iframe>\n"
    \o "        "

\* _getPreviewContent(htmlContent, documentUri)
getPreviewContent(s, uri, d) ==
    frame(escapeHtml(injectNavigationScript(convertResourcePaths(s, uri, d))))

-----------------------------------------------------------------------------
(* Rendering: _getHtmlForWebview, abstracted to what it depends on *)

Render(ts, act) ==
    LET i == findIndex(ts, act) IN
    IF i = 0
    THEN [view |-> "NoTabs", bar |-> <<>>, active |-> "", closeButtons |-> FALSE, content |-> ""]
    ELSE [view |-> IF ts[i].uri # NoUri /\ ts[i].content # "" THEN "Frame" ELSE "FileBrowser",
          bar |-> [j \in 1..Len(ts) |->
                      <<ts[j].id, IF ts[j].title = "" THEN "Untitled" ELSE ts[j].title>>],
          active |-> act,
          closeButtons |-> Len(ts) > 1,
          content |-> IF ts[i].uri # NoUri /\ ts[i].content # "" THEN ts[i].content ELSE ""]

\* mutant of Update: the payload is computed from the store as the operation found it
Update_Early(ts, act) == IF disposed THEN html ELSE Render(tabs, activeId)

\* _update: the write to the webview; a disposed panel has no webview to write to
Update(ts, act) == IF disposed THEN html ELSE Render(ts, act)

-----------------------------------------------------------------------------
(* _updateActiveTabFromEditor, as a function of the store *)

CanSync(editor) == editor # NoEditor /\ languageId(editor) = "html"

\* mutant of updateActiveTabFromEditor: the language of the focused document is not looked at
updateActiveTabFromEditor_AnyLanguage(ts, act, editor) ==
    LET i == findIndex(ts, act) IN
    IF editor = NoEditor \/ i = 0
    THEN ts
    ELSE [ts EXCEPT ![i] = [id |-> ts[i].id,
                            title |-> basename(editor),
                            uri |-> editor,
                            content |-> IF editor \in HtmlDocs THEN text[editor]
                                        ELSE "plain text"]]

\* mutant of updateActiveTabFromEditor: the location of a tab that is already bound is
\* not written again
updateActiveTabFromEditor_StaleUri(ts, act, editor) ==
    LET i == findIndex(ts, act) IN
    IF ~CanSync(editor) \/ i = 0
    THEN ts
    ELSE [ts EXCEPT ![i] = [id |-> ts[i].id,
                            title |-> basename(editor),
                            uri |-> IF ts[i].uri # NoUri THEN ts[i].uri ELSE editor,
                            content |-> text[editor]]]

updateActiveTabFromEditor(ts, act, editor) ==
    LET i == findIndex(ts, act) IN
    IF ~CanSync(editor) \/ i = 0
    THEN ts
    ELSE [ts EXCEPT ![i] = [id |-> ts[i].id,
                            title |-> basename(editor),
                            uri |-> editor,
                            content |-> text[editor]]]

\* _updateActiveTabFromEditor reaches its call of _update
SyncWrites(ts, act, editor) == CanSync(editor) /\ findIndex(ts, act) # 0

\* mutant of onDidChangeActiveTextEditor: the handler leaves the synchronization to the
\* debounce timer
onDidChangeActiveTextEditor_Deferred(ts, act, editor) == ts

\* the onDidChangeActiveTextEditor handler: the tabs after it returns
onDidChangeActiveTextEditor(ts, act, editor) == updateActiveTabFromEditor(ts, act, editor)

\* mutant of NewTabId: the id is derived from the number of open tabs
NewTabId_FromLength(counter, ts) == TabId(Len(ts) + 1)

\* the id _addNewTab gives the tab it creates
NewTabId(counter, ts) == TabId(counter)

\* mutant of addNewTab: the new tab is put in front
addNewTab_Prepend(ts, counter) ==
    LET c == counter + 1
        newTab == [id |-> NewTabId(c, ts), title |-> TabTitle(c), uri |-> NoUri, content |-> ""]
    IN <<updateActiveTabFromEditor(<<newTab>> \o ts, newTab.id, focus), newTab.id, c>>

\* mutant of addNewTab: the new tab is not filled from the editor
addNewTab_NoFill(ts, counter) ==
    LET c == counter + 1
        newTab == [id |-> NewTabId(c, ts), title |-> TabTitle(c), uri |-> NoUri, content |-> ""]
    IN <<Append(ts, newTab), newTab.id, c>>

\* _addNewTab: <<tabs, activeId, tabCounter>> after it returns
addNewTab(ts, counter) ==
    LET c == counter + 1
        newTab == [id |-> NewTabId(c, ts), title |-> TabTitle(c), uri |-> NoUri, content |-> ""]
        pushed == Append(ts, newTab)
    IN <<updateActiveTabFromEditor(pushed, newTab.id, focus), newTab.id, c>>

\* mutant of NextActiveAfterClose: the tab that took the place of the removed one
NextActiveAfterClose_Right(remaining, index) == remaining[Min(index, Len(remaining))].id

\* the tab made active when the active tab was removed from (1-based) index and others remain
NextActiveAfterClose(remaining, index) == remaining[Max(1, index - 1)].id

\* _switchTab: the value _activeTabId gets
switchTab(ts, act, tabId) == tabId

\* mutant of closeTab: no tab is created when the last one is removed
closeTab_NoReplacement(ts, act, counter, tabId) ==
    LET index == findIndex(ts, tabId) IN
    IF index = 0
    THEN <<ts, act, counter>>
    ELSE LET remaining == splice(ts, index) IN
         IF act = tabId /\ Len(remaining) > 0
         THEN <<remaining, NextActiveAfterClose(remaining, index), counter>>
         ELSE <<remaining, act, counter>>

\* mutant of closeTab: the result of findIndex is not tested, and splice(-1, 1) removes
\* the last tab
closeTab_NoIndexCheck(ts, act, counter, tabId) ==
    LET found == findIndex(ts, tabId)
        index == IF found = 0 THEN Len(ts) ELSE found
    IN
    IF index = 0
    THEN <<ts, act, counter>>
    ELSE LET remaining == splice(ts, index) IN
         IF act = tabId
         THEN IF Len(remaining) > 0
              THEN <<remaining, NextActiveAfterClose(remaining, index), counter>>
              ELSE addNewTab(remaining, counter)
         ELSE <<remaining, act, counter>>

\* mutant of closeTab: the active tab is chosen anew whichever tab was removed
closeTab_AlwaysReselect(ts, act, counter, tabId) ==
    LET index == findIndex(ts, tabId) IN
    IF index = 0
    THEN <<ts, act, counter>>
    ELSE LET remaining == splice(ts, index) IN
         IF Len(remaining) > 0
         THEN <<remaining, NextActiveAfterClose(remaining, index), counter>>
         ELSE addNewTab(remaining, counter)

\* _closeTab: <<tabs, activeId, tabCounter>> after it returns
closeTab(ts, act, counter, tabId) ==
    LET index == findIndex(ts, tabId) IN
    IF index = 0
    THEN <<ts, act, counter>>
    ELSE LET remaining == splice(ts, index) IN
         IF act = tabId
         THEN IF Len(remaining) > 0
              THEN <<remaining, NextActiveAfterClose(remaining, index), counter>>
              ELSE addNewTab(remaining, counter)
         ELSE <<remaining, act, counter>>

-----------------------------------------------------------------------------
(* The debounce timer of the constructor *)

\* clearTimeout(timeout): the handle names the timer set most recently
clearTimeout(pend) == IF pend = <<>> THEN pend ELSE SubSeq(pend, 1, Len(pend) - 1)

\* mutant of Arm: the previous timer is not cleared
Arm_NoClear(pend, handle) == Append(pend, QuietPeriod)

\* mutant of Arm: a pending timer is kept and no new one is set
Arm_KeepPending(pend, handle) == IF pend # <<>> THEN pend ELSE Append(pend, QuietPeriod)

\* if (timeout) clearTimeout(timeout); timeout = setTimeout(..., 300)
Arm(pend, handle) == Append(IF handle THEN clearTimeout(pend) ELSE pend, QuietPeriod)

\* the focus handler clears the pending timer
PendingAfterFocusSwitch_Cleared(pend) == clearTimeout(pend)

\* the pending timers after the onDidChangeActiveTextEditor handler: it calls
\* _updateActiveTabFromEditor and nothing else, so they are as before
PendingAfterFocusSwitch(pend) == pend

\* the handler arms for every document that changes
IsActiveDocument_Any(d, editor) == TRUE

\* e.document === vscode.window.activeTextEditor?.document
IsActiveDocument(d, editor) == d = editor

\* mutant of TimerTarget: the tab that was active when the timer was set
TimerTarget_AtArming(act, armed) == armed

\* the tab the timer callback writes: _updateActiveTabFromEditor reads _activeTabId when
\* it runs
TimerTarget(act, armed) == act

-----------------------------------------------------------------------------
(* Initial state: the constructor has run (_addNewTab, then _update) *)

\* the history record of an operation: op names it ("other" for the operations no
\* property asks about).  change: a change event for a document that is not the focused
\* one, arriving while a timer is due.  focus: a focus switch whose handler wrote a tab.
\* createOrShow: hit whether a session was constructed, n the _tabCounter of the session
\* before it.  closeTab: arg the id, hit whether it removed the active tab, n the number
\* of tabs before, at the index removed.  timer: arg the tab active when the
\* timer was set, hit whether the expiry wrote a tab, n the length of the burst, at the
\* time since the last change event.
Op(name, arg, hit) == [op |-> name, arg |-> arg, hit |-> hit, n |-> 0, at |-> 0]


\* the calls of _selectFile in flight: how many await the dialog, how many have their
\* document shown and are to resume; and, where the history keeps it, the tab that was
\* active when the oldest of them was requested
NoSelect == [dialog |-> 0, shown |-> 0, active |-> ""]

\* the record once a call has returned
Returned(sel) == IF sel.dialog + sel.shown = 0 THEN NoSelect ELSE sel

\* mutant of SelectTarget: the tab that was active when _selectFile was called
SelectTarget_AtRequest(act, requested) == requested

\* the tab the synchronization at the end of _selectFile writes:
\* _updateActiveTabFromEditor reads _activeTabId when it runs
SelectTarget(act, requested) == act

\* MultiTabPreviewPanel.currentPanel is undefined
NoPanel == 0

\* mutant of HasCurrentPanel: createOrShow never finds a current panel
HasCurrentPanel_Never(cur) == FALSE

\* createOrShow: if (MultiTabPreviewPanel.currentPanel)
HasCurrentPanel(cur) == cur # NoPanel

\* dispose: MultiTabPreviewPanel.currentPanel = undefined
ReferenceAfterDispose(cur) == NoPanel

\* what the model keeps of a session that is no longer the latest: the number of its
\* timers still due and whether its panel is open.  Its store is reachable from its own
\* callbacks only, and its panel, once disposed, shows nothing
Retire(pend, gone) == [timers |-> Len(pend), live |-> ~gone]

\* a session of the past that has a timer due or an open panel; the others do nothing
\* any more
CanStillAct(s) == s.timers > 0 \/ s.live

\* the session right after its constructor
SessionInit ==
    /\ focus \in Docs \cup {NoEditor}
    /\ text \in {t \in [HtmlDocs -> UNION {TextsOf(d) : d \in HtmlDocs}] :
                    \A d \in HtmlDocs : t[d] \in TextsOf(d)}
    /\ disposed = FALSE
    /\ LET r == addNewTab(<<>>, 0) IN
          /\ tabs = r[1]
          /\ activeId = r[2]
          /\ tabCounter = r[3]
          /\ issued = <<r[2]>>
          /\ html = Render(r[1], r[2])
    /\ timeout = FALSE
    /\ pending = <<>>
    /\ last = Op("constructor", "", FALSE)
    /\ armedActive = ""
    /\ sinceChange = 0
    /\ burstLen = 0
    /\ selecting = NoSelect
    /\ session = 1
    /\ currentPanel = session
    /\ retired = <<>>

\* no document is being resolved
ResolverIdle ==
    /\ source = "" /\ out = "" /\ pass = "idle"
    /\ disk = [p \in {} |-> [kind |-> "missing", text |-> ""]]

Init == SessionInit /\ ResolverIdle

-----------------------------------------------------------------------------
(* Operations of the tab store.  maxCounter bounds _tabCounter. *)

\* message 'addTab' / command antigravity.addTab: addNewTab()
AddTab(maxCounter) ==
    /\ ~disposed
    /\ tabCounter < maxCounter
    /\ LET r == addNewTab(tabs, tabCounter) IN
          /\ tabs' = r[1]
          /\ activeId' = r[2]
          /\ tabCounter' = r[3]
          /\ issued' = Append(issued, r[2])
          /\ html' = Update(r[1], r[2])
    /\ last' = Op("addTab", "", FALSE)
    /\ UNCHANGED <<lifeVars, resolverVars, selecting, focus, text, disposed, timerVars, burstVars>>

\* message 'switchTab'
SwitchTab(tabId) ==
    /\ ~disposed
    /\ activeId' = switchTab(tabs, activeId, tabId)
    /\ html' = Update(tabs, activeId')
    /\ last' = Op("other", "", FALSE)
    /\ UNCHANGED <<lifeVars, resolverVars, selecting, tabs, tabCounter, issued, focus, text, disposed, timerVars, burstVars>>

\* message 'closeTab'
CloseTab(tabId, maxCounter) ==
    /\ ~disposed
    /\ LET r == closeTab(tabs, activeId, tabCounter, tabId) IN
          /\ r[3] <= maxCounter
          /\ tabs' = r[1]
          /\ activeId' = r[2]
          /\ tabCounter' = r[3]
          /\ issued' = IF r[3] # tabCounter THEN Append(issued, r[2]) ELSE issued
          /\ html' = IF findIndex(tabs, tabId) # 0 THEN Update(r[1], r[2]) ELSE html
    /\ last' = [op |-> "closeTab", arg |-> tabId,
                hit |-> findIndex(tabs, tabId) # 0 /\ activeId = tabId,
                n |-> Len(tabs), at |-> findIndex(tabs, tabId)]
    /\ UNCHANGED <<lifeVars, resolverVars, selecting, focus, text, disposed, timerVars, burstVars>>

\* command antigravity.refresh: refresh()
Refresh ==
    /\ ~disposed
    /\ tabs' = updateActiveTabFromEditor(tabs, activeId, focus)
    /\ html' = IF SyncWrites(tabs, activeId, focus) THEN Update(tabs', activeId) ELSE html
    /\ last' = Op("other", "", FALSE)
    /\ UNCHANGED <<lifeVars, resolverVars, selecting, activeId, tabCounter, issued, focus, text, disposed, timerVars, burstVars>>

-----------------------------------------------------------------------------
(* Events of the host *)

\* onDidChangeActiveTextEditor: the focus moves, the handler synchronizes at once
FocusChange(editor) ==
    /\ editor # focus
    /\ focus' = editor
    /\ IF disposed
       THEN UNCHANGED <<tabs, html>>
       ELSE /\ tabs' = onDidChangeActiveTextEditor(tabs, activeId, editor)
            /\ html' = IF SyncWrites(tabs, activeId, editor)
                        THEN Update(tabs', activeId) ELSE html
    /\ pending' = IF disposed THEN pending ELSE PendingAfterFocusSwitch(pending)
    /\ last' = IF ~disposed /\ SyncWrites(tabs, activeId, editor)
               THEN Op("focus", "", TRUE) ELSE Op("other", "", FALSE)
    /\ UNCHANGED <<lifeVars, resolverVars, selecting, activeId, tabCounter, issued, text, disposed, timeout, burstVars>>

\* onDidChangeTextDocument for document d (the event is also emitted when the text stays
\* as it is, e.g. when the dirty state changes); when d is the focused document the
\* handler clears the pending timer and sets a new one
DocChange(d) ==
    /\ IF d \in HtmlDocs
       THEN \E t \in TextsOf(d) : text' = [text EXCEPT ![d] = t]
       ELSE UNCHANGED text
    /\ IF ~disposed /\ IsActiveDocument(d, focus)
       THEN /\ pending' = Arm(pending, timeout)
            /\ Len(pending') <= MaxPending
            /\ timeout' = TRUE
            /\ armedActive' = activeId
            /\ sinceChange' = 0
            /\ burstLen' = IF pending = <<>> THEN 1 ELSE Min(burstLen + 1, 3)
       ELSE UNCHANGED <<timerVars, burstVars>>
    /\ last' = IF ~disposed /\ d # focus /\ pending # <<>> /\ Head(pending) = 0
               THEN Op("change", "", FALSE) ELSE Op("other", "", FALSE)
    /\ UNCHANGED <<lifeVars, resolverVars, selecting, storeVars, focus, disposed, html>>

\* time passes while a timer is pending and none is due
Tick ==
    /\ pending # <<>>
    /\ \A i \in 1..Len(pending) : pending[i] > 0
    /\ pending' = [i \in 1..Len(pending) |-> pending[i] - 1]
    /\ sinceChange' = sinceChange + 1
    /\ last' = Op("other", "", FALSE)
    /\ UNCHANGED <<lifeVars, resolverVars, selecting, storeVars, focus, text, timeout, disposed, html, armedActive, burstLen>>

\* the setTimeout callback: this._updateActiveTabFromEditor()
TimerFire ==
    /\ pending # <<>>
    /\ Head(pending) = 0
    /\ pending' = Tail(pending)
    /\ LET target == TimerTarget(activeId, armedActive) IN
          /\ tabs' = updateActiveTabFromEditor(tabs, target, focus)
          /\ html' = IF SyncWrites(tabs, target, focus) THEN Update(tabs', activeId) ELSE html
          /\ last' = [op |-> "timer", arg |-> armedActive,
                      hit |-> SyncWrites(tabs, target, focus), n |-> burstLen,
                      at |-> sinceChange]
    /\ IF pending' = <<>>
       THEN armedActive' = "" /\ sinceChange' = 0 /\ burstLen' = 0
       ELSE UNCHANGED burstVars
    /\ UNCHANGED <<lifeVars, resolverVars, selecting, activeId, tabCounter, issued, focus, text, timeout, disposed>>

\* dispose(): the panel and the event subscriptions are disposed
Dispose ==
    /\ ~disposed
    /\ disposed' = TRUE
    /\ currentPanel' = ReferenceAfterDispose(currentPanel)
    /\ last' = Op("other", "", FALSE)
    /\ UNCHANGED <<session, retired, resolverVars, selecting, storeVars, focus, text, timerVars, html, burstVars>>

\* command antigravity.openPreview: createOrShow.  With a current panel it is revealed
\* (the focus event that may follow is a FocusChange); without one a panel is created and
\* the constructor runs on a new object: _tabs = [], _tabCounter = 0, _addNewTab, _update
CreateOrShow ==
    IF HasCurrentPanel(currentPanel)
    THEN /\ last' = Op("createOrShow", "", FALSE)
         /\ UNCHANGED <<lifeVars, resolverVars, selecting, storeVars, focus, text, timerVars,
                        disposed, html, burstVars>>
    ELSE /\ session < MaxSessions
         /\ session' = session + 1
         /\ currentPanel' = session'
         /\ retired' = SelectSeq(Append(retired, Retire(pending, disposed)), CanStillAct)
         /\ LET r == addNewTab(<<>>, 0) IN
               /\ tabs' = r[1]
               /\ activeId' = r[2]
               /\ tabCounter' = r[3]
               /\ issued' = <<r[2]>>
               /\ html' = Render(r[1], r[2])
         /\ disposed' = FALSE
         /\ timeout' = FALSE
         /\ pending' = <<>>
         /\ armedActive' = ""
         /\ sinceChange' = 0
         /\ burstLen' = 0
         /\ selecting' = NoSelect
         /\ last' = [Op("createOrShow", "", TRUE) EXCEPT !.n = tabCounter]
         /\ UNCHANGED <<resolverVars, focus, text>>

\* the setTimeout callback of an earlier session k, at some time after that session was
\* replaced: this._updateActiveTabFromEditor() runs on that session's object and writes
\* that session's _tabs and panel
RetiredTimerFire(k) ==
    /\ k \in 1..Len(retired)
    /\ retired[k].timers > 0
    /\ retired' = SelectSeq([retired EXCEPT ![k].timers = @ - 1], CanStillAct)
    /\ last' = Op("other", "", FALSE)
    /\ UNCHANGED <<currentPanel, session, resolverVars, selecting, storeVars, focus, text,
                   timerVars, disposed, html, burstVars>>

-----------------------------------------------------------------------------
(* _selectFile: an async method; its awaits let other events in *)

\* message 'selectFile': the handler calls _selectFile, which awaits showOpenDialog;
\* with keep, the history notes the tab active now
SelectFile(keep) ==
    /\ ~disposed
    /\ selecting.dialog + selecting.shown < MaxSelects
    /\ selecting' = [dialog |-> selecting.dialog + 1, shown |-> selecting.shown,
                     active |-> IF keep /\ selecting.dialog + selecting.shown = 0
                                THEN activeId ELSE selecting.active]
    /\ last' = Op("other", "", FALSE)
    /\ UNCHANGED <<lifeVars, resolverVars, storeVars, focus, text, timerVars, disposed, html, burstVars>>

\* the dialog is dismissed: fileUri is undefined and _selectFile returns
DialogCancel ==
    /\ selecting.dialog > 0
    /\ selecting' = Returned([selecting EXCEPT !.dialog = @ - 1])
    /\ last' = Op("other", "", FALSE)
    /\ UNCHANGED <<lifeVars, resolverVars, storeVars, focus, text, timerVars, disposed, html, burstVars>>

\* a file is chosen, openTextDocument and showTextDocument complete: document d is the
\* active editor's; when the focus moved, onDidChangeActiveTextEditor fires and its
\* handler (if still subscribed) synchronizes
DialogShow(d) ==
    /\ selecting.dialog > 0
    /\ selecting' = [selecting EXCEPT !.dialog = @ - 1, !.shown = @ + 1]
    /\ focus' = d
    /\ IF disposed \/ d = focus
       THEN UNCHANGED <<tabs, html>>
       ELSE /\ tabs' = onDidChangeActiveTextEditor(tabs, activeId, d)
            /\ html' = IF SyncWrites(tabs, activeId, d) THEN Update(tabs', activeId) ELSE html
    /\ pending' = IF disposed \/ d = focus THEN pending ELSE PendingAfterFocusSwitch(pending)
    /\ last' = Op("other", "", FALSE)
    /\ UNCHANGED <<lifeVars, resolverVars, activeId, tabCounter, issued, text, disposed, timeout,
                   burstVars>>

\* _selectFile resumes after `await showTextDocument`: this._updateActiveTabFromEditor()
SelectResume ==
    /\ selecting.shown > 0
    /\ selecting' = Returned([selecting EXCEPT !.shown = @ - 1])
    /\ LET target == SelectTarget(activeId, selecting.active) IN
          /\ tabs' = updateActiveTabFromEditor(tabs, target, focus)
          /\ html' = IF SyncWrites(tabs, target, focus) THEN Update(tabs', activeId) ELSE html
          /\ last' = Op("select", selecting.active, SyncWrites(tabs, target, focus))
    /\ UNCHANGED <<lifeVars, resolverVars, activeId, tabCounter, issued, focus, text, disposed,
                   timerVars, burstVars>>

-----------------------------------------------------------------------------
(* The resolver at work on one document *)

\* the parts the documents of the model are made of
Parts ==
    {"<link rel=\"stylesheet\" href=\"style.css\">",
     "<link rel=\"icon\" href=\"favicon.ico\">",
     "<link rel=\"stylesheet\" href=\"https://cdn.example.com/base.css\">",
     "<img src=\"pic.png\">",
     "<IMG SRC='pic.png'>",
     "<img src=\"https://example.com/logo.png\">",
     "<img src=\"httpdocs/pic.png\">",
     "<img src=\"//cdn.example.com/p.png\">",
     "<img src=\"data:image/png;base64,AAAA\">",
     "<script src=\"app.js\"></script>",
     "<p>Hello</p>",
     "</body>",
     "</BODY>",
     "\n"}

\* the documents of at most n parts
RECURSIVE Documents(_)
Documents(n) ==
    IF n = 0 THEN {""} ELSE {""} \cup {p \o d : p \in Parts, d \in Documents(n - 1)}

\* the document being resolved is the one of the tab: its location and its directory
DocumentUri == "/w/a.html"

\* the files next to the document: style.css and app.js, each there, unreadable or missing
StyleText == "body{color:red}"
ScriptText == "run()"
DiskStates ==
    {[p \in {"/w/style.css", "/w/app.js"} |->
         IF p = "/w/style.css" THEN css ELSE js] :
       css \in {[kind |-> "file", text |-> StyleText],
                [kind |-> "unreadable", text |-> ""],
                [kind |-> "missing", text |-> ""]},
       js \in {[kind |-> "file", text |-> ScriptText],
               [kind |-> "missing", text |-> ""]}}

\* _getPreviewContent is called with the content and the location of the active tab
InitResolve ==
    /\ SessionInit
    /\ focus = NoEditor
    /\ \A d \in HtmlDocs : text[d] = CHOOSE t \in TextsOf(d) : t # ""
    /\ source \in Documents(MaxParts)
    /\ disk \in DiskStates
    /\ pass = "source"
    /\ out = source

sessionVars == <<tabs, activeId, tabCounter, focus, text, timeout, pending, disposed,
                 html, issued, last, armedActive, sinceChange, burstLen, selecting,
                 currentPanel, session, retired>>

\* pass 1: the stylesheets are inlined
InlineCss ==
    /\ pass = "source"
    /\ out' = inlineCss(out, dirname(DocumentUri), disk)
    /\ pass' = "css"
    /\ UNCHANGED <<sessionVars, source, disk>>

\* pass 2: the src values are rewritten
RewriteSrc ==
    /\ pass = "css"
    /\ out' = rewriteSrc(out, dirname(DocumentUri))
    /\ pass' = "src"
    /\ UNCHANGED <<sessionVars, source, disk>>

\* pass 3: the scripts are inlined
InlineScripts ==
    /\ pass = "src"
    /\ out' = inlineScripts(out, dirname(DocumentUri), disk)
    /\ pass' = "resolved"
    /\ UNCHANGED <<sessionVars, source, disk>>

\* the link-interception script is put in
Inject ==
    /\ pass = "resolved"
    /\ out' = injectNavigationScript(out)
    /\ pass' = "injected"
    /\ UNCHANGED <<sessionVars, source, disk>>

\* the pieces the texts given to _escapeHtml are made of: the three characters it
\* replaces, the tails of the entities it writes, and markup
Tokens == {"&", "\"", "'", "amp;", "quot;", "#39;", "<p>"}

\* the texts of at most n pieces
RECURSIVE Texts(_)
Texts(n) ==
    IF n = 0 THEN {""} ELSE {""} \cup {t \o u : t \in Tokens, u \in Texts(n - 1)}

\* _escapeHtml is called with a text, here one that needs no files
InitEscape ==
    /\ SessionInit
    /\ focus = NoEditor
    /\ \A d \in HtmlDocs : text[d] = CHOOSE t \in TextsOf(d) : t # ""
    /\ source \in Texts(MaxTokens)
    /\ disk = << >>
    /\ pass = "text"
    /\ out = source

\* this._escapeHtml(htmlContent)
Escape ==
    /\ pass = "text"
    /\ out' = escapeHtml(out)
    /\ pass' = "escaped"
    /\ UNCHANGED <<sessionVars, source, disk>>

\* the escaped text is set into the srcdoc attribute of the frame
Frame ==
    /\ pass = "escaped"
    /\ out' = frame(out)
    /\ pass' = "framed"
    /\ UNCHANGED <<sessionVars, source, disk>>

-----------------------------------------------------------------------------
(* Specifications *)

\* the live session: every operation and event, time included
Next ==
    \/ AddTab(LiveCounter)
    \/ \E id \in MsgIds(LiveCounter) : SwitchTab(id)
    \/ \E id \in MsgIds(LiveCounter) : CloseTab(id, LiveCounter)
    \/ Refresh
    \/ \E e \in Docs \cup {NoEditor} : FocusChange(e)
    \/ \E d \in Docs : DocChange(d)
    \/ Tick
    \/ TimerFire
    \/ Dispose

Spec == Init /\ [][Next]_vars

\* the tab store under its messages, the editor left as it is
NextStore ==
    \/ AddTab(MaxCounter)
    \/ \E id \in StoreIds : SwitchTab(id)
    \/ \E id \in StoreIds : CloseTab(id, MaxCounter)
    \/ Refresh

SpecStore == Init /\ [][NextStore]_vars

\* every source of a synchronization: tab creation, refresh, focus switch, the debounce
\* timer and _selectFile, the panel open
NextSync ==
    \/ AddTab(LiveCounter)
    \/ \E id \in MsgIds(LiveCounter) : CloseTab(id, LiveCounter)
    \/ Refresh
    \/ \E e \in Docs \cup {NoEditor} : FocusChange(e)
    \/ \E d \in Docs : DocChange(d)
    \/ Tick
    \/ TimerFire
    \/ SelectFile(FALSE)
    \/ DialogCancel
    \/ \E d \in Docs : DialogShow(d)
    \/ SelectResume

SpecSync == Init /\ [][NextSync]_vars

\* the tab store under its messages and the synchronizations that need no timer, the
\* focus moving between documents
NextFrame ==
    \/ AddTab(FrameCounter)
    \/ \E id \in MsgIds(FrameCounter) : SwitchTab(id)
    \/ \E id \in MsgIds(FrameCounter) : CloseTab(id, FrameCounter)
    \/ Refresh
    \/ \E e \in Docs \cup {NoEditor} : FocusChange(e)

SpecFrame == Init /\ [][NextFrame]_vars

\* _selectFile among the messages of the webview and focus switches, the history keeping
\* the tab active at the request
NextSelect ==
    \/ AddTab(LiveCounter)
    \/ \E id \in MsgIds(LiveCounter) : SwitchTab(id)
    \/ \E id \in MsgIds(LiveCounter) : CloseTab(id, LiveCounter)
    \/ \E e \in Docs \cup {NoEditor} : FocusChange(e)
    \/ SelectFile(TRUE)
    \/ DialogCancel
    \/ \E d \in Docs : DialogShow(d)
    \/ SelectResume

SpecSelect == Init /\ [][NextSelect]_vars

\* the debounce timer among change events, focus switches and tab creations
NextDebounce ==
    \/ AddTab(LiveCounter)
    \/ \E e \in Docs \cup {NoEditor} : FocusChange(e)
    \/ \E d \in Docs : DocChange(d)
    \/ Tick
    \/ TimerFire

SpecDebounce == Init /\ [][NextDebounce]_vars

\* sessions one after the other: the commands that open the preview and add a tab, the
\* closing of the panel, the debounce timer of the latest session and of those before it
NextLife ==
    \/ CreateOrShow
    \/ AddTab(LiveCounter)
    \/ \E id \in MsgIds(LiveCounter) : CloseTab(id, LiveCounter)
    \/ \E e \in Docs \cup {NoEditor} : FocusChange(e)
    \/ \E d \in Docs : DocChange(d)
    \/ Dispose
    \/ \E k \in 1..MaxSessions : RetiredTimerFire(k)

SpecLife == Init /\ [][NextLife]_vars

\* _getPreviewContent on the documents of the model, step by step
NextResolve ==
    \/ InlineCss
    \/ RewriteSrc
    \/ InlineScripts
    \/ Inject

SpecResolve == InitResolve /\ [][NextResolve]_vars

\* _escapeHtml and the frame around its result, on the texts of the model
NextEscape ==
    \/ Escape
    \/ Frame

SpecEscape == InitEscape /\ [][NextEscape]_vars

\* sequences of createTab and closeTab alone
NextCreateClose ==
    \/ AddTab(MaxCounter)
    \/ \E id \in StoreIds : CloseTab(id, MaxCounter)

SpecCreateClose == Init /\ [][NextCreateClose]_vars

-----------------------------------------------------------------------------
(* Properties of the tab store *)

NoDuplicates(q) == \A i, j \in 1..Len(q) : i # j => q[i] # q[j]
Range(q) == {q[i] : i \in 1..Len(q)}
ActiveTab == tabs[findIndex(tabs, activeId)]

\* C1: after every createTab and closeTab of a sequence of these two operations (closeTab
\* naming any id) the tab sequence is non-empty and activeId is the id of one of its tabs.
C1_NonEmptyAndActiveValid == Len(tabs) >= 1 /\ activeId \in TabIds(tabs)

\* closeTab has just removed the only tab, and a replacement is there and active
C1_Witness ==
    /\ last.op = "closeTab" /\ last.hit /\ last.n = 1
    /\ Len(tabs) = 1 /\ activeId = tabs[1].id /\ activeId # last.arg

\* C2: in every reachable state, whatever ids switchTab and closeTab carried, activeId is
\* the id of a tab of the store.
C2_ActiveIdNamesTab == HasTab(tabs, activeId)

\* C3: the store is never empty, under addTab, switchTab and closeTab with arbitrary ids.
C3_StoreNeverEmpty == Len(tabs) >= 1

\* C4: switchTab(id) with an id that names no tab of the store leaves activeId, the tab
\* sequence and every tab unchanged.
C4_SwitchTabUnknownIsNoOp ==
    [][\A id \in StoreIds :
          (SwitchTab(id) /\ ~HasTab(tabs, id)) => UNCHANGED <<activeId, tabs>>]_vars

\* C9: no id is issued twice over the lifetime of the store, closed tabs included: the ids
\* issued so far are pairwise distinct, there is one per value the counter has taken, the
\* open tabs carry issued ids, each its own, and the counter never decreases.
C9_IdsNeverReused ==
    [][/\ NoDuplicates(issued')
       /\ Len(issued') = tabCounter'
       /\ TabIds(tabs') \subseteq Range(issued')
       /\ NoDuplicates([i \in 1..Len(tabs') |-> tabs'[i].id])
       /\ tabCounter' >= tabCounter
       /\ Len(issued') > Len(issued) => tabCounter' = tabCounter + 1]_vars

\* a tab has just been created after another one was closed
C9_Witness ==
    /\ last.op = "addTab"
    /\ Len(issued) >= 3
    /\ \E i \in 1..(Len(issued) - 1) : issued[i] \notin TabIds(tabs)
    /\ Len(tabs) >= 2

\* C10: when closeTab(id) removes the active tab from index i and tabs remain, the new
\* active tab is the left neighbour of the removed tab, or the new first tab when the
\* removed tab was the first.
C10_LeftNeighbourBecomesActive ==
    [][\A id \in StoreIds :
          (CloseTab(id, MaxCounter) /\ activeId = id /\ HasTab(tabs, id) /\ Len(tabs) > 1)
          => LET i == findIndex(tabs, id) IN
             /\ Len(tabs') = Len(tabs) - 1
             /\ \A j \in 1..Len(tabs') : tabs'[j] = IF j < i THEN tabs[j] ELSE tabs[j + 1]
             /\ activeId' = IF i = 1 THEN tabs[2].id ELSE tabs[i - 1].id]_vars

\* Scenario A: the active middle tab of three has just been closed
C10_Witness ==
    /\ last.op = "closeTab" /\ last.hit /\ last.n = 3 /\ last.at = 2
    /\ Len(tabs) = 2 /\ activeId = tabs[1].id

-----------------------------------------------------------------------------
(* Properties of tab creation *)

\* a tab creation has just returned: addNewTab(), or _closeTab having removed the only tab
JustCreated ==
    \/ last.op = "addTab"
    \/ last.op = "closeTab" /\ last.hit /\ last.n = 1

LastTab == tabs[Len(tabs)]
Unbound(t) == t.uri = NoUri /\ t.content = ""

\* C11 as stated: right after a tab creation returns, whatever the editor focus, the new
\* tab is the last of the sequence, is active, and is unbound, with no sourceRef, empty
\* content and the placeholder title "Tab N".
C11_NewTabUnbound ==
    JustCreated =>
        /\ LastTab.id = TabId(tabCounter) /\ activeId = LastTab.id
        /\ Unbound(LastTab) /\ LastTab.title = TabTitle(tabCounter)

\* C11 amended: right after a tab creation returns the new tab is the last of the
\* sequence and is active; it is unbound with the placeholder title when no document is
\* focused or the focused document is not HTML, and otherwise it is bound to the focused
\* HTML document, with that document's file name and full text.
C11_NewTabLastActiveFilled ==
    JustCreated =>
        /\ LastTab.id = TabId(tabCounter) /\ activeId = LastTab.id
        /\ IF CanSync(focus)
           THEN /\ LastTab.uri = focus /\ LastTab.title = basename(focus)
                /\ LastTab.content = text[focus]
           ELSE Unbound(LastTab) /\ LastTab.title = TabTitle(tabCounter)

\* a second tab has just been created while an HTML document is focused, and carries it
C11_Witness ==
    /\ last.op = "addTab" /\ Len(tabs) >= 2
    /\ CanSync(focus) /\ LastTab.uri = focus /\ LastTab.content # ""

\* the number n of the id tab-n
TabNumber(id) == CHOOSE n \in 1..Len(TabIdTable) : TabId(n) = id

\* the ids of the tabs, left to right
IdsOf(ts) == [i \in 1..Len(ts) |-> ts[i].id]

\* the creation numbers of the tabs increase from left to right
InCreationOrder(ts) ==
    \A i, j \in 1..Len(ts) : i < j => TabNumber(ts[i].id) < TabNumber(ts[j].id)

\* C27: the tab sequence is in creation order before and after every step; a step that
\* creates a tab puts it at the end, behind the tabs that stay; and closeTab of a tab of
\* the sequence takes out that one tab and leaves the others in the order they had.
C27_CreationOrder ==
    [][/\ InCreationOrder(tabs) /\ InCreationOrder(tabs')
       /\ tabCounter' # tabCounter =>
             /\ tabs'[Len(tabs')].id = TabId(tabCounter')
             /\ last'.op = "addTab" => IdsOf(tabs') = Append(IdsOf(tabs), TabId(tabCounter'))
       /\ (last'.op = "closeTab" /\ HasTab(tabs, last'.arg)) =>
             LET Stays(id) == id # last'.arg
                 kept == SelectSeq(IdsOf(tabs), Stays)
             IN /\ Len(kept) = Len(tabs) - 1
                /\ IdsOf(tabs') = IF tabCounter' = tabCounter THEN kept
                                  ELSE Append(kept, TabId(tabCounter'))]_vars

\* closeTab has just removed the first of three tabs: the second and the third remain, in
\* that order
C27_Witness ==
    /\ last.op = "closeTab" /\ last.n = 3 /\ last.at = 1
    /\ IdsOf(tabs) = <<TabId(2), TabId(3)>>

-----------------------------------------------------------------------------
(* Properties of the debounce timer *)

\* a pending timer expires in this step
Expiry == pending # <<>> /\ Len(pending') < Len(pending)

\* C5: once dispose() has run, no later event changes a tab or the payload of the webview.
C5_NoUpdateAfterDispose == [][disposed => UNCHANGED <<tabs, html>>]_vars

\* C6: during a burst of change events of the focused document exactly one timer is
\* pending and it is due one quiet period after the last event; an expiry happens only one
\* quiet period after the last event, ends the burst, and writes the text the focused
\* HTML document has at that moment into the active tab.
C6_DebounceCoalescing ==
    [][/\ pending' # <<>> => pending' = <<QuietPeriod - sinceChange'>>
       /\ Expiry =>
            /\ sinceChange = QuietPeriod
            /\ pending' = <<>>
            /\ text' = text
            /\ SyncWrites(tabs, activeId, focus) =>
                  tabs'[findIndex(tabs, activeId)].content = text[focus]]_vars

\* a burst of three change events has just been synchronized, once, one quiet period after
\* the last of them
C6_Witness ==
    /\ last.op = "timer" /\ last.n = 3 /\ last.at = QuietPeriod /\ last.hit
    /\ pending = <<>>
    /\ HasTab(tabs, activeId) /\ ActiveTab.content = text[focus] /\ ActiveTab.uri = focus

\* C7: at most one debounce timer is pending, and it is the one the handle names.
C7_AtMostOneTimer == Len(pending) <= 1 /\ (pending # <<>> => timeout)

\* a change event has just superseded a pending timer
C7_Witness == burstLen >= 2 /\ pending = <<QuietPeriod>>

\* C8: an expiry writes the focused document's name, location and full text into the tab
\* that is active at expiry time, and changes no other tab; the tab that was active when
\* the timer was set is left as it is unless it is still the active one.
C8_ExpiryWritesActiveTab ==
    [][Expiry =>
         /\ Len(tabs') = Len(tabs)
         /\ \A i \in 1..Len(tabs) :
               tabs'[i] = IF tabs[i].id = activeId /\ CanSync(focus)
                          THEN [id |-> activeId, title |-> basename(focus),
                                uri |-> focus, content |-> text[focus]]
                          ELSE tabs[i]]_vars

\* an expiry has just written the active tab, which is not the tab that was active when
\* the timer was set; that tab is still there and shows something else
C8_Witness ==
    /\ last.op = "timer" /\ last.hit
    /\ last.arg # activeId /\ HasTab(tabs, last.arg)
    /\ ActiveTab.content = text[focus] /\ ActiveTab.uri = focus
    /\ tabs[findIndex(tabs, last.arg)].content # text[focus]

\* a timer is set in this step: the last of the pending timers is new
Arming ==
    /\ pending' # <<>>
    /\ pending'[Len(pending')] = QuietPeriod
    /\ pending = <<>> \/ Len(pending') > Len(pending) \/ pending[Len(pending)] # QuietPeriod

\* C26: a change event for a document that is not the focused one leaves the timer as it
\* is, handle and remaining time: it sets none, clears none and postpones none; and every
\* step that sets a timer is a change event for the focused document.
C26_StrayChangeLeavesTimer ==
    [][/\ \A d \in Docs : (d # focus /\ DocChange(d)) => UNCHANGED <<pending, timeout>>
       /\ Arming => (focus \in Docs /\ DocChange(focus))]_vars

\* a change event for another document has arrived while the timer was due: the timer is
\* still due, one quiet period after the last change of the focused document
C26_Witness ==
    /\ last.op = "change"
    /\ pending = <<0>>
    /\ sinceChange = QuietPeriod

\* C30: a focus switch, whether its handler writes a tab or not, leaves the pending timer
\* and its remaining time as they are; the timer expires one quiet period after the change
\* event that set it, and its expiry writes the tab active then from the document focused
\* then (when that is an HTML document), leaving the other tabs alone.
C30_FocusSwitchKeepsTimer ==
    [][/\ focus' # focus => UNCHANGED <<pending, timeout>>
       /\ Expiry =>
            /\ sinceChange = QuietPeriod
            /\ Len(tabs') = Len(tabs)
            /\ \A i \in 1..Len(tabs) :
                  tabs'[i] = IF tabs[i].id = activeId /\ CanSync(focus)
                             THEN [tabs[i] EXCEPT !.title = basename(focus), !.uri = focus,
                                                  !.content = text[focus]]
                             ELSE tabs[i]]_vars

\* the focus has just moved to an HTML document, which the handler wrote into the active
\* tab, while the timer set before was due: it is still pending and due, one quiet period
\* after it was set
C30_Witness ==
    /\ last.op = "focus" /\ last.hit
    /\ timeout /\ pending = <<0>>
    /\ sinceChange = QuietPeriod
    /\ ActiveTab.uri = focus

-----------------------------------------------------------------------------
(* Properties of synchronization *)

\* C12: each tab updates automatically on changes: when the quiet period after a change
\* of the focused HTML document has elapsed (the panel open, activeId naming a tab), every
\* tab bound to that document, active or not, has the document's current text, and every
\* bound tab is still bound to its own document.
C12_EachTabUpdates ==
    [][(Expiry /\ ~disposed /\ HasTab(tabs, activeId) /\ CanSync(focus)) =>
          \A i \in 1..Len(tabs) :
             tabs[i].uri # NoUri =>
                /\ tabs'[i].uri = tabs[i].uri
                /\ tabs[i].uri = focus => tabs'[i].content = text[focus]]_vars

\* C13: a focus switch to an HTML document, the panel open and activeId naming a tab,
\* writes that document's location, file name and current text into the active tab and
\* renders it within the same step, whether or not a debounce timer is pending, and leaves
\* the pending timer as it is.
C13_FocusSwitchSyncsAtOnce ==
    [][(focus' # focus /\ ~disposed /\ SyncWrites(tabs, activeId, focus')) =>
          /\ tabs'[findIndex(tabs, activeId)] =
                [id |-> activeId, title |-> basename(focus'), uri |-> focus',
                 content |-> text[focus']]
          /\ html' = Render(tabs', activeId)
          /\ UNCHANGED <<pending, timeout>>]_vars

\* the focus has just moved to another HTML document while the timer of the document
\* edited before was pending, partly elapsed, and the active tab shows the new document
C13_Witness ==
    /\ last.op = "focus" /\ last.hit
    /\ pending # <<>> /\ pending[1] < QuietPeriod
    /\ ActiveTab.uri = focus /\ ActiveTab.content = text[focus] /\ ActiveTab.content # ""

\* C14: a step taken while, at the moment of its synchronization attempt, no document is
\* focused or the focused document is not HTML (a timer expiry, a focus switch, a refresh,
\* the completion of _selectFile, a tab creation) binds nothing: every tab of the store
\* after the step is a tab of the store before it, with the same sourceRef, title and
\* content, or the unbound tab just created; and when no tab was created or closed the
\* tab sequence and activeId are as before.  Stated over the steps of SpecSync: switchTab,
\* which moves activeId without any synchronization attempt, is not one of them.
C14_NoSyncWithoutHtmlFocus ==
    [][~CanSync(focus') =>
          /\ \A j \in 1..Len(tabs') :
                \/ \E i \in 1..Len(tabs) : tabs'[j] = tabs[i]
                \/ /\ tabCounter' = tabCounter + 1
                   /\ tabs'[j] = [id |-> TabId(tabCounter'), title |-> TabTitle(tabCounter'),
                                  uri |-> NoUri, content |-> ""]
          /\ (tabCounter' = tabCounter /\ Len(tabs') = Len(tabs)) =>
                UNCHANGED <<tabs, activeId>>]_vars

\* _selectFile has just completed with a document that is not HTML in the editor, and the
\* active tab still shows the HTML document it was bound to
C14_Witness ==
    /\ last.op = "select" /\ ~last.hit
    /\ focus \in OtherDocs
    /\ HasTab(tabs, activeId) /\ ActiveTab.uri \in HtmlDocs /\ ActiveTab.content # ""

\* a synchronization is attempted in this step by refresh, a timer expiry or a focus switch
SyncStep == Refresh \/ Expiry \/ focus' # focus

\* C15: closeTab(id) with an id that names no tab of the store, and a synchronization
\* (refresh, timer expiry, focus switch) made while activeId names no tab, leave the tab
\* sequence, every tab, activeId, the id counter and the payload as they are.
C15_StaleIdIsNoOp ==
    [][/\ (last'.op = "closeTab" /\ ~HasTab(tabs, last'.arg)) =>
             UNCHANGED <<tabs, activeId, tabCounter, html>>
       /\ (~HasTab(tabs, activeId) /\ SyncStep) =>
             UNCHANGED <<tabs, activeId, tabCounter, html>>]_vars

\* closeTab has just been called with the id of a tab closed earlier, other tabs being open
C15_Witness ==
    /\ last.op = "closeTab" /\ last.at = 0
    /\ last.arg \in Range(issued) /\ last.arg \notin TabIds(tabs)
    /\ Len(tabs) >= 1 /\ last.n = Len(tabs) /\ HasTab(tabs, activeId)

\* C16: switchTab changes no tab; closeTab leaves every tab that remains in the store with
\* its sourceRef, title and content, and leaves activeId as it is when the tab it names is
\* not the active one; a synchronization changes no tab but the active one, and neither
\* the ids of the tab sequence, nor activeId, nor the id counter.
C16_Frame ==
    [][/\ (\E id \in MsgIds(FrameCounter) : SwitchTab(id)) => tabs' = tabs
       /\ last'.op = "closeTab" =>
             /\ \A j \in 1..Len(tabs') :
                   HasTab(tabs, tabs'[j].id) => tabs'[j] = tabs[findIndex(tabs, tabs'[j].id)]
             /\ last'.arg # activeId => activeId' = activeId
       /\ SyncStep =>
             /\ Len(tabs') = Len(tabs)
             /\ \A i \in 1..Len(tabs) :
                   /\ tabs'[i].id = tabs[i].id
                   /\ tabs'[i] # tabs[i] => tabs[i].id = activeId
             /\ activeId' = activeId /\ tabCounter' = tabCounter]_vars

\* closeTab has just removed the middle tab of three while the first was active; the
\* first is still the active one, and the two that remain show different documents
C16_Witness ==
    /\ last.op = "closeTab" /\ last.at = 2 /\ last.n = 3 /\ ~last.hit
    /\ Len(tabs) = 2 /\ activeId = tabs[1].id
    /\ tabs[1].uri \in HtmlDocs /\ tabs[2].uri \in HtmlDocs /\ tabs[1].uri # tabs[2].uri

\* a tab is unbound with empty content and its placeholder title, or carries the location,
\* the file name and one of the texts of one HTML document
WellBound(t) ==
    \/ t.uri = NoUri /\ t.content = "" /\ t.title = TabTitle(TabNumber(t.id))
    \/ t.uri \in HtmlDocs /\ t.title = basename(t.uri) /\ t.content \in TextsOf(t.uri)

\* the three binding fields of t are those of the document focused after the step
BoundToFocus(t) ==
    /\ CanSync(focus')
    /\ t.uri = focus' /\ t.title = basename(focus') /\ t.content = text'[focus']

\* C17: every tab is unbound with empty content, or bound with sourceRef, title and
\* content of one and the same document; whenever a step changes a tab or creates a bound
\* one, the three fields are the location, the file name and the full current text of the
\* document focused at that step; and a bound tab stays bound.
C17_BindingIsConsistent ==
    /\ \A i \in 1..Len(tabs) : WellBound(tabs[i])
    /\ [][\A j \in 1..Len(tabs') :
             /\ WellBound(tabs'[j])
             /\ IF HasTab(tabs, tabs'[j].id)
                THEN LET old == tabs[findIndex(tabs, tabs'[j].id)] IN
                     /\ tabs'[j] # old => BoundToFocus(tabs'[j])
                     /\ old.uri # NoUri => tabs'[j].uri # NoUri
                ELSE tabs'[j].uri # NoUri => BoundToFocus(tabs'[j])]_vars

\* a focus switch has just bound the active tab to another document than the one an
\* inactive tab shows, each of the two carrying its own document's name and text
C17_Witness ==
    /\ last.op = "focus" /\ last.hit
    /\ Len(tabs) = 2 /\ HasTab(tabs, activeId)
    /\ tabs[1].uri = "/w/a.html" /\ tabs[1].content = "<h1>one</h1>"
    /\ tabs[2].uri = "/w/b.html" /\ tabs[2].content = "<p>b</p>"

\* a call of _selectFile returns from a dismissed dialog in this step
Cancelled == selecting'.dialog < selecting.dialog /\ selecting'.shown = selecting.shown

\* a call of _selectFile resumes behind showTextDocument and synchronizes in this step
Completed == selecting'.shown < selecting.shown

\* C28: while a call of _selectFile is in flight the store can be changed by the messages
\* and events that arrive; the synchronization at the end of the call writes the focused
\* document into the tab that is active in that moment (when the document is HTML) and
\* leaves every other tab, the one active at the request included, as it is; a call that
\* ends with the dialog dismissed changes no tab and not the active id.
C28_SelectFileWritesActiveAtCompletion ==
    [][/\ Cancelled => UNCHANGED <<tabs, activeId, html>>
       /\ Completed =>
             /\ activeId' = activeId
             /\ Len(tabs') = Len(tabs)
             /\ \A i \in 1..Len(tabs) :
                   tabs'[i] = IF tabs[i].id = activeId /\ CanSync(focus)
                              THEN [tabs[i] EXCEPT !.title = basename(focus), !.uri = focus,
                                                   !.content = text[focus]]
                              ELSE tabs[i]]_vars

\* a call of _selectFile requested while one tab was active has just completed while
\* another was: the chosen document stands in the tab active now, and the tab active at
\* the request is still in the store and does not show it
C28_Witness ==
    /\ last.op = "select" /\ last.hit
    /\ last.arg # activeId /\ HasTab(tabs, last.arg)
    /\ ActiveTab.uri = focus /\ ActiveTab.content = text[focus]
    /\ tabs[findIndex(tabs, last.arg)].uri # focus

-----------------------------------------------------------------------------
(* Properties of the session lifecycle *)

\* the number of sessions whose panel is open
LiveSessions ==
    Cardinality({k \in 1..Len(retired) : retired[k].live}) + Cardinality({disposed} \ {TRUE})

\* the steps of createOrShow, and those of the callbacks of an earlier session
CreateOrShowStep == last'.op = "createOrShow"
EarlierSessionStep == session' = session /\ retired' # retired

\* C31: at most one session is live at any time, and currentPanel refers to it exactly
\* while it is live.  createOrShow with a live session constructs nothing and leaves tabs,
\* activeId and the id counter as they are; dispose clears currentPanel; createOrShow
\* after dispose constructs a session whose store holds exactly one tab, tab-1, active,
\* with the id counter at 1, whatever the store of the disposed session held; and what a
\* timer of an earlier session does when it expires leaves the store and the payload of
\* the session after it untouched.
C31_SingleSession ==
    [][/\ LiveSessions' <= 1
       /\ (currentPanel' # NoPanel) <=> ~disposed'
       /\ (~disposed /\ disposed') => currentPanel' = NoPanel
       /\ (CreateOrShowStep /\ ~disposed) =>
              UNCHANGED <<tabs, activeId, tabCounter, session, retired, disposed, html>>
       /\ (CreateOrShowStep /\ disposed) =>
              /\ session' = session + 1
              /\ currentPanel' = session'
              /\ ~disposed'
              /\ Len(tabs') = 1
              /\ tabCounter' = 1
              /\ tabs'[1].id = TabId(1)
              /\ activeId' = TabId(1)
              /\ \/ tabs'[1].uri = NoUri /\ tabs'[1].content = "" /\ tabs'[1].title = TabTitle(1)
                 \/ CanSync(focus) /\ tabs'[1].uri = focus /\ tabs'[1].content = text[focus]
              /\ html' = Render(tabs', activeId')
       /\ EarlierSessionStep => UNCHANGED <<tabs, activeId, tabCounter, html, currentPanel>>
      ]_vars

\* a session has just been constructed after the one before it was disposed with two ids
\* handed out and a timer still due
C31_Witness ==
    /\ last.op = "createOrShow" /\ last.hit
    /\ last.n = 2
    /\ session = 2 /\ currentPanel = session /\ ~disposed
    /\ tabCounter = 1 /\ Len(tabs) = 1
    /\ retired # <<>> /\ retired[1].timers > 0

-----------------------------------------------------------------------------
(* Properties of the payload *)

\* no tab of the store has a document bound with content to show
NoBoundContent == \A i \in 1..Len(tabs) : tabs[i].uri = NoUri \/ tabs[i].content = ""

\* C18: whenever no tab of the store has bound content, the payload is the placeholder
\* view with the file-selection affordance, and neither a frame nor any other view.
C18_PlaceholderWhenNothingBound == NoBoundContent => html.view = "FileBrowser"

\* C32: while the session is live, the payload last written to the webview is the one
\* computed from the tab sequence, activeId and the active tab as they are now: no
\* operation returns with the store changed and the payload of an earlier store in place.
C32_PayloadIsCurrent == ~disposed => html = Render(tabs, activeId)

\* the debounce timer has just written the first of two tabs, to which the session had
\* switched back, and the payload shows that tab's new content in its frame
C32_Witness ==
    /\ ~disposed
    /\ last.op = "timer" /\ last.hit
    /\ Len(tabs) = 2 /\ activeId = tabs[1].id
    /\ html.view = "Frame" /\ html.active = activeId
    /\ html.content = text[focus] /\ tabs[2].content # html.content

-----------------------------------------------------------------------------
(* Properties of the resolver *)

\* the value starts with one of the four prefixes of an absolute reference
StartsAbsolute(v) ==
    \/ MatchesAt(v, 1, "http://") \/ MatchesAt(v, 1, "https://")
    \/ MatchesAt(v, 1, "//") \/ MatchesAt(v, 1, "data:")

\* the attribute attr="value" or attr='value' stands at position p of s
AttrAt(s, p, attr) ==
    /\ MatchesAt(s, p, attr)
    /\ IsQuote(Char(s, p + Len(attr)))
    /\ \E e \in (p + Len(attr) + 1)..Len(s) : Char(s, e) = Char(s, p + Len(attr))

\* the position of the quote that closes it, and its value
AttrEnd(s, p, attr) ==
    Least({e \in (p + Len(attr) + 1)..Len(s) : Char(s, e) = Char(s, p + Len(attr))})
AttrValue(s, p, attr) == SubSeq(s, p + Len(attr) + 1, AttrEnd(s, p, attr) - 1)

\* C19: every src reference of the document whose value does not start with http://,
\* https://, // or data: stands in the resolved text as src="<the host's URI of the path
\* resolved against the document's directory>" and no longer with its relative value;
\* a src reference whose value starts with one of the four stands there untouched.
C19_SrcRewrittenUnlessAbsolute ==
    pass = "resolved" =>
        \A p \in 1..Len(source) :
            AttrAt(source, p, "src=") =>
                LET v == AttrValue(source, p, "src=")
                    ref == SubSeq(source, p, AttrEnd(source, p, "src="))
                IN IF StartsAbsolute(v)
                   THEN Includes(out, ref)
                   ELSE /\ ~Includes(out, ref)
                        /\ Includes(out, "src=\"" \o asWebviewUri(join(dirname(DocumentUri), v))
                                          \o "\"")

\* the link element that starts at position p of s: up to its closing >
LinkAt(s, p) == MatchesAt(s, p, "<link") /\ ClosersAfter(s, p) # {}
LinkElement(s, p) == SubSeq(s, p, Least(ClosersAfter(s, p)))

\* C20: every link element of the document whose href is a relative path to a file that
\* exists and is readable is replaced in the resolved text by a style block with that
\* file's text, and does not stand there any more, whatever precedes it.
C20_StylesheetInlined ==
    pass = "resolved" =>
        \A p \in 1..Len(source) :
            LinkAt(source, p) =>
                LET el == LinkElement(source, p) IN
                \A h \in 1..Len(el) :
                    (/\ AttrAt(el, h, "href=")
                     /\ ~StartsAbsolute(AttrValue(el, h, "href="))
                     /\ existsSync(disk, join(dirname(DocumentUri), AttrValue(el, h, "href=")))
                     /\ ~readThrows(disk, join(dirname(DocumentUri), AttrValue(el, h, "href="))))
                    => /\ ~Includes(out, el)
                       /\ Includes(out, "<style>"
                                        \o readFileSync(disk, join(dirname(DocumentUri),
                                                                   AttrValue(el, h, "href=")))
                                        \o "</style>")

\* the script element that starts at position p of s: its opening tag, up to its closing >
ScriptAt(s, p) == MatchesAt(s, p, "<script") /\ ClosersAfter(s, p) # {}
ScriptElement(s, p) == SubSeq(s, p, Least(ClosersAfter(s, p)))

\* the opening tags of the script elements of s that have a relative src naming a file of d
\* with the given kind, each with the path its src resolves to
LocalScripts(s, d, kinds) ==
    UNION {LET el == ScriptElement(s, p) IN
           {<<el, join(dirname(DocumentUri), AttrValue(el, h, "src="))>> :
               h \in {h \in 1..Len(el) :
                        /\ AttrAt(el, h, "src=")
                        /\ ~StartsAbsolute(AttrValue(el, h, "src="))
                        /\ LET path == join(dirname(DocumentUri), AttrValue(el, h, "src="))
                           IN IF path \in DOMAIN d THEN d[path].kind \in kinds
                              ELSE "missing" \in kinds}} :
           p \in {p \in 1..Len(s) : ScriptAt(s, p)}}

\* C21: every script element of the document whose src is a relative path to a readable
\* file stands in the resolved text with the file's text as its body, and no src attribute
\* of the resolved text points at that file, neither by its relative path nor by the
\* host's URI of it.
C21_ScriptInlined ==
    pass = "resolved" =>
        \A el \in LocalScripts(source, disk, {"file"}) :
            /\ Includes(out, ">" \o readFileSync(disk, el[2]) \o "</script>")
            /\ ~Includes(out, el[1])
            /\ ~Includes(out, "src=\"" \o asWebviewUri(el[2]) \o "\"")

\* the link elements of s whose href is a relative path ending in .css that names a file of
\* d with the given kind
LocalStylesheets(s, d, kinds) ==
    {LinkElement(s, p) :
        p \in {p \in 1..Len(s) :
                 /\ LinkAt(s, p)
                 /\ \E h \in 1..Len(LinkElement(s, p)) :
                       /\ AttrAt(LinkElement(s, p), h, "href=")
                       /\ ~StartsAbsolute(AttrValue(LinkElement(s, p), h, "href="))
                       /\ LET v == AttrValue(LinkElement(s, p), h, "href=")
                              path == join(dirname(DocumentUri), v)
                          IN /\ Len(v) >= 4 /\ MatchesAt(v, Len(v) - 3, ".css")
                             /\ IF path \in DOMAIN d THEN d[path].kind \in kinds
                                ELSE "missing" \in kinds}}

\* the img elements of s with a relative src that does not begin with the letters http
LocalImages(s) ==
    {p \in 1..Len(s) :
        /\ MatchesAt(s, p, "<img ")
        /\ AttrAt(s, p + 5, "src=")
        /\ ~LookaheadAbsolute(s, p + 10)}

\* C22: when the target of a relative stylesheet or script reference is missing or
\* unreadable, the resolver still reaches its end, the element of that reference stands in
\* the resolved text exactly as in the document, and the other references are resolved:
\* the relative src of every img element is rewritten to the host's URI.
C22_FailOpen ==
    pass = "resolved" =>
        LET failedLinks == LocalStylesheets(source, disk, {"missing", "unreadable"})
            failedScripts == LocalScripts(source, disk, {"missing", "unreadable"})
        IN /\ \A el \in failedLinks : Includes(out, el)
           /\ \A el \in failedScripts : Includes(out, el[1])
           /\ (failedLinks # {} \/ failedScripts # {}) =>
                 \A p \in LocalImages(source) :
                     Includes(out, "src=\"" \o asWebviewUri(join(dirname(DocumentUri),
                                                                AttrValue(source, p + 5, "src=")))
                                   \o "\"")

\* the opening tag el of a script element with its first src attribute as the src pass
\* leaves it: src="<the host's URI of path>"
ScriptRewritten(el, path) ==
    LET h == Least({k \in 1..Len(el) : AttrAt(el, k, "src=")}) IN
    SubSeq(el, 1, h - 1) \o "src=\"" \o asWebviewUri(path) \o "\""
    \o SubSeq(el, AttrEnd(el, h, "src=") + 1, Len(el))

AllAbsolute(s) ==
    \A p \in 1..Len(s) :
        /\ AttrAt(s, p, "src=") => StartsAbsolute(AttrValue(s, p, "src="))
        /\ AttrAt(s, p, "href=") => StartsAbsolute(AttrValue(s, p, "href="))

\* C23: for a document all of whose references are absolute, the resolver returns the
\* document text as it is; the text after the injection differs from the document by the
\* link-interception script alone; and resolving the resolver's output again, before or
\* after the injection, changes nothing.
C23_AbsoluteOnlyUnchanged ==
    (pass \in {"resolved", "injected"} /\ AllAbsolute(source)) =>
        /\ pass = "resolved" => out = source
        /\ pass = "injected" =>
              \E q \in Occurrences(out, NavigationScript) :
                  SubSeq(out, 1, q - 1) \o SubSeq(out, q + Len(NavigationScript), Len(out))
                      = source
        /\ convertResourcePaths(out, DocumentUri, disk) = out

\* a document with an absolute stylesheet link and an absolute src, and nothing relative,
\* has been resolved and injected
C23_Witness ==
    /\ pass = "injected"
    /\ AllAbsolute(source)
    /\ \E p \in 1..Len(source) : AttrAt(source, p, "href=")
    /\ \E p \in 1..Len(source) : AttrAt(source, p, "src=")
    /\ out # source

-----------------------------------------------------------------------------
(* Properties of the sandbox renderer *)

RECURSIVE decodeFrom(_, _)
decodeFrom(s, p) ==
    LET amps == {q \in p..Len(s) : Char(s, q) = "&"} IN
    IF amps = {}
    THEN SubSeq(s, p, Len(s))
    ELSE LET q == Least(amps) IN
         SubSeq(s, p, q - 1)
         \o (IF SubSeq(s, q, Min(q + 4, Len(s))) = "&amp;" THEN "&" \o decodeFrom(s, q + 5)
             ELSE IF SubSeq(s, q, Min(q + 5, Len(s))) = "&quot;" THEN "\"" \o decodeFrom(s, q + 6)
             ELSE IF SubSeq(s, q, Min(q + 4, Len(s))) = "&#39;" THEN "'" \o decodeFrom(s, q + 5)
             ELSE "&" \o decodeFrom(s, q + 1))

decode(s) == decodeFrom(s, 1)

\* an entity the escaping writes stands at position i of s
EntityAt(s, i) ==
    \/ SubSeq(s, i, Min(i + 4, Len(s))) = "&amp;"
    \/ SubSeq(s, i, Min(i + 5, Len(s))) = "&quot;"
    \/ SubSeq(s, i, Min(i + 4, Len(s))) = "&#39;"

\* C24: the escaped text holds no double and no single quote, each of its ampersands begins
\* one of &amp; &quot; &#39;, and decoding these three entities once gives the text that was
\* escaped, so no entity the escaping wrote was escaped again.
C24_EscapeRoundTrip ==
    pass = "escaped" =>
        /\ \A i \in 1..Len(out) : ~IsQuote(Char(out, i))
        /\ \A i \in 1..Len(out) : Char(out, i) = "&" => EntityAt(out, i)
        /\ decode(out) = source

\* a text with an ampersand followed by the tail of an entity, and a quote, has been
\* escaped
C24_Witness ==
    /\ pass = "escaped"
    /\ \E i \in 1..Len(source) : EntityAt(source, i)
    /\ \E i \in 1..Len(source) : IsQuote(Char(source, i))
    /\ out # source

====
